---- MODULE Spec2Model ----
(***************************************************************************)
(* Model of dcl-http-prom-metrics (src/src/lib.rs): the collector builder, *)
(* the collector (update_metrics, collect, is_endpoint), the MetricLog     *)
(* drop guard and the actix `metrics` middleware.                          *)
(*                                                                         *)
(* Three specifications share the variables:                               *)
(*   SpecBuild      the fluent builder and build() against a               *)
(*                  caller-supplied or a private registry (start-up,       *)
(*                  single threaded);                                      *)
(*   Spec           an application whose collector has been built and      *)
(*                  installed, serving requests concurrently on several    *)
(*                  workers that share the collector;                      *)
(*   SpecCollector  callers of the collector's public update_metrics and   *)
(*                  collect, running concurrently.                         *)
(*                                                                         *)
(* The histogram is modelled by its observation count (_count) only: the   *)
(* duration value, the buckets and the sum are not part of the state.      *)
(* with_label_values(..) followed by observe()/inc() is one atomic step    *)
(* each (prometheus' children map lock and atomic counters).               *)
(***************************************************************************)
EXTENDS Integers, Sequences, FiniteSets, TLC

\* ------------------------------------------------------------------ bounds
\* Number of requests handled concurrently (worker slots).
NumSlots == 2
\* Number of requests that arrive in a run of the middleware specification.
MaxRequests == 2
\* Number of direct update_metrics / collect calls in a run of the collector
\* specification.
MaxCalls == 4
\* Number of build() calls in a run of the builder specification.
MaxBuilds == 2

\* ------------------------------------------------------------ strings, codes
None == "<none>"

GET == "GET"
Methods == {"GET", "POST"}

OK == 200

Digits == <<"0", "1", "2", "3", "4", "5", "6", "7", "8", "9">>

\* StatusCode::as_str: the three decimal digits of the code.
CodeStr(c) == Digits[(c \div 100) + 1] \o Digits[((c \div 10) % 10) + 1] \o Digits[(c % 10) + 1]

\* Statuses a downstream response may carry, and statuses of the
\* error_response() of a downstream error.
RespStatuses == {200, 404}
ErrStatuses == {500}

\* ------------------------------------------------------------------ builder
TotalName == "http_requests_total"
DurationName == "http_requests_duration_seconds"

DefaultEndpoint == "/metrics"

\* Values given to endpoint() and paths probed with is_endpoint.
EndpointArgs == {"/metrics", "/stats"}
ProbePaths == {"/metrics", "/stats", "/metrics/", "/u/1"}

NoCollector == [built |-> FALSE, endpoint |-> None, registry |-> None]

\* HttpMetricsCollectorBuilder::new
BuilderNew == [registry |-> "own", endpoint |-> None, buckets |-> "default"]

\* self.endpoint.unwrap_or("/metrics")
UnwrapOrDefault(ep) == IF ep = None THEN DefaultEndpoint ELSE ep

\* path == self.endpoint && method == Method::GET
IsEndpointNoMethod(c, path, method) == path = c.endpoint

is_endpoint(c, path, method) == path = c.endpoint /\ method = GET

\* ------------------------------------------------------------------- router
\* The requests served (method and path), and the routes the application
\* registers: "/stats" is no route, "/u/1" is served by a dynamic one.
Requests == (Methods \X {"/metrics", "/stats"}) \cup {<<"GET", "/u/1">>}
Routes == {"/metrics", "/u/{id}"}
Wildcard == "*"

\* A resource pattern matches a path string (a dynamic segment matches any
\* non-empty segment, its own placeholder text included).
Matches(pattern, path) ==
    \/ pattern = "/metrics" /\ path = "/metrics"
    \/ pattern = "/u/{id}" /\ path \in {"/u/1", "/u/{id}"}

\* ResourceMap: the node whose pattern matches the path, if any.
FindMatchingNode(path) ==
    IF \E p \in Routes : Matches(p, path)
    THEN CHOOSE p \in Routes : Matches(p, path)
    ELSE None

\* req.match_pattern()
match_pattern(path) == FindMatchingNode(path)

\* req.resource_map().has_resource(&path)
has_resource(path) == FindMatchingNode(path) # None

\* The handler label without the has_resource test.
HandlerRawPath(p) == IF match_pattern(p) # None THEN match_pattern(p) ELSE p

\* let handler = { match_pattern().unwrap_or(path); has_resource ? path : "*" }
Handler(p) ==
    LET path == IF match_pattern(p) # None THEN match_pattern(p) ELSE p
    IN  IF has_resource(path) THEN path ELSE Wildcard

\* ------------------------------------------------------------ metric series
EmptySeries == [t \in {} |-> 0]

Get(f, t) == IF t \in DOMAIN f THEN f[t] ELSE 0

\* A counter that stores 1 instead of adding 1.
CounterStore(f, t) == IF t \in DOMAIN f THEN [f EXCEPT ![t] = 1] ELSE f @@ (t :> 1)

\* A counter vector that keeps only the child it last touched.
CounterReplace(f, t) == (t :> (Get(f, t) + 1))

\* with_label_values(&label_values).inc() / .observe(): the child of the
\* label tuple is created on first use and its count goes up by one.
CounterInc(f, t) == IF t \in DOMAIN f THEN [f EXCEPT ![t] = @ + 1] ELSE f @@ (t :> 1)

\* An encoder that drops the series of non-200 codes.
EncodeOnlyOk(tot, hst) ==
    {<<TotalName, t[1], t[2], t[3], tot[t]>> : t \in {u \in DOMAIN tot : u[3] = "200"}}
    \cup {<<DurationName, t[1], t[2], t[3], hst[t]>> : t \in DOMAIN hst}

\* An encoder that prints the histogram's count on the counter's lines.
EncodeSwapped(tot, hst) ==
    {<<TotalName, t[1], t[2], t[3], hst[t]>> : t \in DOMAIN hst}
    \cup {<<DurationName, t[1], t[2], t[3], hst[t]>> : t \in DOMAIN hst}

\* TextEncoder over registry.gather(): one line per label tuple of each
\* series, the line carrying the series name, the three label values and the
\* value (for the histogram: its _count).
Encode(tot, hst) ==
    {<<TotalName, t[1], t[2], t[3], tot[t]>> : t \in DOMAIN tot}
    \cup {<<DurationName, t[1], t[2], t[3], hst[t]>> : t \in DOMAIN hst}

\* ---------------------------------------------------------------- variables
VARIABLES
    sharedRegistry,  \* names registered in the caller-supplied Registry
    builder,         \* the HttpMetricsCollectorBuilder being configured
    builds,          \* build() calls so far
    built,           \* the last build(): its builder, outcome and collector
    collector,       \* the HttpMetricsCollector installed as app data
    req,             \* per worker slot: the request (or direct call) being handled
    arrivals,        \* requests (or direct calls) begun so far
    total,           \* http_requests_total: label tuple -> value
    hist,            \* http_requests_duration_seconds: label tuple -> _count
    started,         \* update_metrics calls made so far, per label tuple
    raced,           \* label tuples for which two direct update_metrics calls overlapped
    scrapes          \* scrape requests answered with the rendered text so far

vars == <<sharedRegistry, builder, builds, built, collector, req, arrivals,
          total, hist, started, raced, scrapes>>

buildVars == <<sharedRegistry, builder, builds, built, collector>>
serveVars == <<req, arrivals, total, hist, started, raced, scrapes>>

Slots == 1..NumSlots

NoBuilder == [registry |-> None, endpoint |-> None, buckets |-> None]

NoBuild == [result |-> "none", from |-> NoBuilder, before |-> {}, after |-> {},
            returned |-> NoCollector]

NoLabels == <<None, None, None>>

IdleReq == [pc |-> "idle", method |-> None, path |-> None, handler |-> None,
            code |-> 0, sets |-> 0, calls |-> 0, recorded |-> 0,
            labels |-> NoLabels,
            down |-> [kind |-> "none", status |-> 0],
            ret |-> [kind |-> "none", status |-> 0],
            exit |-> "none", quiet |-> FALSE, body |-> {}]

\* ---------------------------------------------------------- builder actions
\* A registry that accepts a name it already holds.
RegisterOkAlways(names, name) == TRUE

\* Registry::register: Err(AlreadyReg) when the name is taken.
RegisterOk(names, name) == name \notin names

Register(names, name) == names \cup {name}

\* build(): register http_requests_total, then
\* http_requests_duration_seconds, each unwrap()ed; then the collector with
\* endpoint.unwrap_or("/metrics"). `shared` is the content of the registry
\* given with registry(); a builder without one has a new, empty Registry.
BuildRun(b, shared) ==
    LET before == IF b.registry = "shared" THEN shared ELSE {}
        n1 == Register(before, TotalName)
        n2 == Register(n1, DurationName)
        panic(names) == [result |-> "panic", from |-> b, before |-> before,
                         after |-> names, returned |-> NoCollector]
    IN  IF ~RegisterOk(before, TotalName) THEN panic(before)
        ELSE IF ~RegisterOk(n1, DurationName) THEN panic(n1)
        ELSE [result |-> "ok", from |-> b, before |-> before, after |-> n2,
              returned |-> [built |-> TRUE,
                            endpoint |-> UnwrapOrDefault(b.endpoint),
                            registry |-> b.registry]]

\* HttpMetricsCollectorBuilder::new()
New ==
    /\ builds < MaxBuilds
    /\ builder = NoBuilder
    /\ builder' = BuilderNew
    /\ UNCHANGED <<sharedRegistry, builds, built, collector, serveVars>>

\* .registry(registry): the caller-supplied registry
SetRegistry ==
    /\ builder # NoBuilder
    /\ builder.registry # "shared"
    /\ builder' = [builder EXCEPT !.registry = "shared"]
    /\ UNCHANGED <<sharedRegistry, builds, built, collector, serveVars>>

\* .buckets(buckets)
SetBuckets ==
    /\ builder # NoBuilder
    /\ builder.buckets # "custom"
    /\ builder' = [builder EXCEPT !.buckets = "custom"]
    /\ UNCHANGED <<sharedRegistry, builds, built, collector, serveVars>>

\* .endpoint(endpoint)
SetEndpoint(e) ==
    /\ builder # NoBuilder
    /\ builder.endpoint # e
    /\ builder' = [builder EXCEPT !.endpoint = e]
    /\ UNCHANGED <<sharedRegistry, builds, built, collector, serveVars>>

\* .build(): consumes the builder
Build ==
    /\ builder # NoBuilder
    /\ builds < MaxBuilds
    /\ LET out == BuildRun(builder, sharedRegistry)
       IN  /\ built' = out
           /\ sharedRegistry' = IF builder.registry = "shared" THEN out.after
                                ELSE sharedRegistry
           /\ collector' = IF out.result = "ok" THEN out.returned ELSE collector
    /\ builds' = builds + 1
    /\ builder' = NoBuilder
    /\ UNCHANGED serveVars

ServeInit ==
    /\ req = [s \in Slots |-> IdleReq]
    /\ arrivals = 0
    /\ total = EmptySeries
    /\ hist = EmptySeries
    /\ started = EmptySeries
    /\ raced = {}
    /\ scrapes = 0

\* Start-up: nothing built yet; the caller's registry may already hold
\* series, these two names among them.
InitBuild ==
    /\ sharedRegistry \in SUBSET {TotalName, DurationName, "process_cpu_seconds_total"}
    /\ builder = NoBuilder
    /\ builds = 0
    /\ built = NoBuild
    /\ collector = NoCollector
    /\ ServeInit

NextBuild ==
    \/ New
    \/ SetRegistry
    \/ SetBuckets
    \/ \E e \in EndpointArgs : SetEndpoint(e)
    \/ Build

SpecBuild == InitBuild /\ [][NextBuild]_vars

\* ---------------------------------------------------------- request handling
\* update_metrics: let label_values = [method.as_str(), handler, code.as_str()]
LabelValues(rq) == <<rq.method, rq.handler, CodeStr(rq.code)>>

\* An update_metrics call is between its entry and its inc().
Updating(rq) == rq.pc \in {"observe", "inc"}

\* No update_metrics call is in progress.
Quiescent == \A s \in Slots : ~Updating(req[s])

\* Number of update_metrics calls in progress for label tuple t.
InProgress(t) == Cardinality({s \in Slots : Updating(req[s]) /\ req[s].labels = t})

\* Bookkeeping of the calls made: one more for tuple t.
Tally(f, t) == IF t \in DOMAIN f THEN [f EXCEPT ![t] = @ + 1] ELSE f @@ (t :> 1)

\* A guard created with a server-error status.
NewMetricLogError(rq) == [rq EXCEPT !.code = 500]

\* let mut log = MetricLog { .., code: StatusCode::OK, handler }
NewMetricLog(rq) == [rq EXCEPT !.code = OK]

\* A guard that is forgotten instead of dropped.
ScopeExitForget(rq) == [rq EXCEPT !.pc = "done"]

\* The async block ends (return, unwinding or the future being dropped):
\* `log` goes out of scope and MetricLog::drop calls
\* update_metrics(&method, &handler, code, timestamp), which computes its
\* label values.
ScopeExit(rq) ==
    [rq EXCEPT !.pc = "observe", !.labels = LabelValues(rq), !.recorded = @ + 1]

\* A first poll that hands every request to next.call.
PollStepAlwaysNext(c, rq) ==
    [NewMetricLog(rq) EXCEPT !.pc = "awaiting", !.calls = @ + 1]

\* First poll of the async block: the guard is created, then the branch on
\* collector.is_endpoint(req.path(), req.method()); the else branch calls
\* next.call(req) and awaits it.
PollStep(c, rq) ==
    IF is_endpoint(c, rq.path, rq.method)
    THEN [NewMetricLog(rq) EXCEPT !.pc = "collect"]
    ELSE [NewMetricLog(rq) EXCEPT !.pc = "awaiting", !.calls = @ + 1]

\* Match arms that leave log.code alone.
OnDownstreamKeepCode(rq, kind, status) ==
    ScopeExit([rq EXCEPT !.down = [kind |-> kind, status |-> status],
                         !.ret = [kind |-> kind, status |-> status],
                         !.exit = IF kind = "ok" THEN "response" ELSE "error"])

\* Match arms of which only the Err arm sets log.code.
OnDownstreamErrOnly(rq, kind, status) ==
    ScopeExit([rq EXCEPT !.down = [kind |-> kind, status |-> status],
                         !.code = IF kind = "err" THEN status ELSE @,
                         !.sets = IF kind = "err" THEN @ + 1 ELSE @,
                         !.ret = [kind |-> kind, status |-> status],
                         !.exit = IF kind = "ok" THEN "response" ELSE "error"])

\* match next.call(req).await: Ok(res) => log.code = res.status(); Ok(res)
\*                             Err(err) => log.code =
\*                                 err.error_response().status(); Err(err)
OnDownstream(rq, kind, status) ==
    ScopeExit([rq EXCEPT !.down = [kind |-> kind, status |-> status],
                         !.code = status, !.sets = @ + 1,
                         !.ret = [kind |-> kind, status |-> status],
                         !.exit = IF kind = "ok" THEN "response" ELSE "error"])

\* What collect() returned on the scrape path.
Collected(ok) == [kind |-> IF ok THEN "collect_ok" ELSE "collect_err", status |-> 0]

\* A scrape branch that answers 204 without the text.
OnCollectNoContent(rq, ok, tot, hst) ==
    IF ok
    THEN ScopeExit([rq EXCEPT !.down = Collected(ok),
                              !.ret = [kind |-> "ok", status |-> 204],
                              !.exit = "scrape_ok"])
    ELSE ScopeExit([rq EXCEPT !.down = Collected(ok),
                              !.ret = [kind |-> "panic", status |-> 0],
                              !.exit = "scrape_panic"])

\* A scrape branch with unwrap_or_default(): a failed render is answered
\* with an empty 200 response.
OnCollectDegrade(rq, ok, tot, hst) ==
    ScopeExit([rq EXCEPT !.down = Collected(ok),
                         !.body = IF ok THEN Encode(tot, hst) ELSE {},
                         !.ret = [kind |-> "ok", status |-> OK],
                         !.exit = "scrape_ok"])

\* A scrape branch that renders after the guard has recorded.
OnCollectAfterDrop(rq, ok, tot, hst) ==
    LET t == LabelValues(rq)
    IN  IF ok
        THEN ScopeExit([rq EXCEPT !.down = Collected(ok),
                                  !.body = Encode(CounterInc(tot, t), CounterInc(hst, t)),
                                  !.ret = [kind |-> "ok", status |-> OK],
                                  !.exit = "scrape_ok"])
        ELSE ScopeExit([rq EXCEPT !.down = Collected(ok),
                                  !.ret = [kind |-> "panic", status |-> 0],
                                  !.exit = "scrape_panic"])

\* A scrape branch that marks the guard with 500 when the render fails.
OnCollectMarksFailure(rq, ok, tot, hst) ==
    IF ok
    THEN ScopeExit([rq EXCEPT !.down = Collected(ok),
                              !.body = Encode(tot, hst),
                              !.ret = [kind |-> "ok", status |-> OK],
                              !.exit = "scrape_ok"])
    ELSE ScopeExit([rq EXCEPT !.down = Collected(ok), !.code = 500,
                              !.ret = [kind |-> "panic", status |-> 0],
                              !.exit = "scrape_panic"])

\* Ok(req.into_response(collector.collect().unwrap())): the rendered text in
\* a 200 response, or the unwrap panics and the block unwinds.
OnCollect(rq, ok, tot, hst) ==
    IF ok
    THEN ScopeExit([rq EXCEPT !.down = Collected(ok),
                              !.body = Encode(tot, hst),
                              !.ret = [kind |-> "ok", status |-> OK],
                              !.exit = "scrape_ok"])
    ELSE ScopeExit([rq EXCEPT !.down = Collected(ok),
                              !.ret = [kind |-> "panic", status |-> 0],
                              !.exit = "scrape_panic"])

\* What slot r's step adds to the bookkeeping when it began an update_metrics
\* call (its count of calls went up from n): one more call for the label
\* tuple.
Dropped(r, n) ==
    started' = IF req'[r].recorded > n THEN Tally(started, req'[r].labels)
               ELSE started

\* A request arrives on a free worker. The closure of from_fn runs
\* (timestamp, method, collector from app data, handler label) and the async
\* block it returns is polled up to its first access to shared state.
\* (Workers are interchangeable: a request takes the lowest free one.)
Enter(r, m, p) ==
    /\ collector.built
    /\ arrivals < MaxRequests
    /\ req[r].pc \in {"idle", "done"}
    /\ \A s \in Slots : s < r => req[s].pc \notin {"idle", "done"}
    /\ req' = [req EXCEPT ![r] = PollStep(collector,
                    [IdleReq EXCEPT !.method = m, !.path = p, !.handler = Handler(p)])]
    /\ arrivals' = arrivals + 1
    /\ UNCHANGED <<buildVars, total, hist, started, raced, scrapes>>

\* collect() on the scrape path: Ok(text) or Err (encoder failure).
Collect(r, ok) ==
    /\ req[r].pc = "collect"
    /\ req' = [req EXCEPT ![r] = OnCollect(@, ok, total, hist)]
    /\ Dropped(r, req[r].recorded)
    /\ scrapes' = IF req'[r].ret.kind = "ok" THEN scrapes + 1 ELSE scrapes
    /\ UNCHANGED <<buildVars, arrivals, total, hist, raced>>

\* next.call(req) completes with a response.
DownstreamOk(r, status) ==
    /\ req[r].pc = "awaiting"
    /\ req' = [req EXCEPT ![r] = OnDownstream(@, "ok", status)]
    /\ Dropped(r, req[r].recorded)
    /\ UNCHANGED <<buildVars, arrivals, total, hist, raced, scrapes>>

\* next.call(req) completes with an error.
DownstreamErr(r, status) ==
    /\ req[r].pc = "awaiting"
    /\ req' = [req EXCEPT ![r] = OnDownstream(@, "err", status)]
    /\ Dropped(r, req[r].recorded)
    /\ UNCHANGED <<buildVars, arrivals, total, hist, raced, scrapes>>

\* The request future is dropped while next.call is pending.
Cancel(r) ==
    /\ req[r].pc = "awaiting"
    /\ req' = [req EXCEPT ![r] = ScopeExit([@ EXCEPT !.exit = "cancelled",
                                 !.ret = [kind |-> "cancelled", status |-> 0]])]
    /\ Dropped(r, req[r].recorded)
    /\ UNCHANGED <<buildVars, arrivals, total, hist, raced, scrapes>>

\* An update_metrics without the observe().
ObserveSkipped(r) ==
    /\ req[r].pc = "observe"
    /\ req' = [req EXCEPT ![r] = [@ EXCEPT !.pc = "inc"]]
    /\ UNCHANGED <<buildVars, arrivals, total, hist, started, raced, scrapes>>

\* http_requests_duration_seconds.with_label_values(..).observe(duration)
Observe(r) ==
    /\ req[r].pc = "observe"
    /\ hist' = CounterInc(hist, req[r].labels)
    /\ req' = [req EXCEPT ![r] = [@ EXCEPT !.pc = "inc"]]
    /\ UNCHANGED <<buildVars, arrivals, total, started, raced, scrapes>>

\* A read-modify-write inc without synchronisation: calls that are at their
\* inc() for the same tuple all read the same value and store value + 1.
IncLostUpdate(r) ==
    /\ req[r].pc = "inc"
    /\ total' = CounterInc(total, req[r].labels)
    /\ req' = [s \in Slots |->
                 IF req[s].pc = "inc" /\ req[s].labels = req[r].labels
                 THEN [req[s] EXCEPT !.pc = "done"] ELSE req[s]]
    /\ UNCHANGED <<buildVars, arrivals, hist, started, raced, scrapes>>

\* http_requests_total.with_label_values(..).inc(); update_metrics and the
\* drop return, the future completes and the worker is free again.
Inc(r) ==
    /\ req[r].pc = "inc"
    /\ total' = CounterInc(total, req[r].labels)
    /\ req' = [req EXCEPT ![r] = [@ EXCEPT !.pc = "done"]]
    /\ UNCHANGED <<buildVars, arrivals, hist, started, raced, scrapes>>

\* Label values direct callers of the collector pass to update_metrics.
CallMethods == {"GET"}
CallHandlers == {"/users"}
CallCodes == {200, 404}

\* A caller invokes collector.update_metrics(&m, h, c, timestamp) directly.
Call(r, m, h, c) ==
    /\ collector.built
    /\ arrivals < MaxCalls
    /\ req[r].pc \in {"idle", "done"}
    /\ \A s \in Slots : s < r => req[s].pc \notin {"idle", "done"}
    /\ req' = [req EXCEPT ![r] = ScopeExit([IdleReq EXCEPT !.method = m,
                                             !.handler = h, !.code = c, !.exit = "call"])]
    /\ Dropped(r, 0)
    /\ raced' = IF \E s \in Slots \ {r} : /\ Updating(req[s])
                                          /\ req[s].labels = req'[r].labels
                THEN raced \cup {req'[r].labels} ELSE raced
    /\ arrivals' = arrivals + 1
    /\ UNCHANGED <<buildVars, total, hist, scrapes>>

\* What collect() hands to a direct caller.
OnRender(ok, tot, hst, quiet) ==
    IF ok
    THEN [IdleReq EXCEPT !.pc = "done", !.exit = "render", !.quiet = quiet,
                         !.body = Encode(tot, hst),
                         !.ret = [kind |-> "ok", status |-> 0]]
    ELSE [IdleReq EXCEPT !.pc = "done", !.exit = "render", !.quiet = quiet,
                         !.ret = [kind |-> "err", status |-> 0]]

\* A caller invokes collector.collect() directly: Ok(text) or Err.
Render(r, ok) ==
    /\ collector.built
    /\ arrivals < MaxCalls
    /\ req[r].pc \in {"idle", "done"}
    /\ \A s \in Slots : s < r => req[s].pc \notin {"idle", "done"}
    /\ req' = [req EXCEPT ![r] = OnRender(ok, total, hist, Quiescent)]
    /\ arrivals' = arrivals + 1
    /\ UNCHANGED <<buildVars, total, hist, started, raced, scrapes>>

\* The application is up: a collector built with its own registry, with the
\* default endpoint or with endpoint("/stats"), is installed as app data.
Init ==
    /\ \E ep \in {None, "/stats"} :
         LET out == BuildRun([BuilderNew EXCEPT !.endpoint = ep], {})
         IN  /\ built = out
             /\ collector = out.returned
    /\ sharedRegistry = {}
    /\ builder = NoBuilder
    /\ builds = 1
    /\ ServeInit

Next ==
    \/ \E r \in Slots, q \in Requests : Enter(r, q[1], q[2])
    \/ \E r \in Slots, ok \in BOOLEAN : Collect(r, ok)
    \/ \E r \in Slots, st \in RespStatuses : DownstreamOk(r, st)
    \/ \E r \in Slots, st \in ErrStatuses : DownstreamErr(r, st)
    \/ \E r \in Slots : Cancel(r)
    \/ \E r \in Slots : Observe(r)
    \/ \E r \in Slots : Inc(r)

Spec == Init /\ [][Next]_vars

NextCollector ==
    \/ \E r \in Slots, m \in CallMethods, h \in CallHandlers, c \in CallCodes :
          Call(r, m, h, c)
    \/ \E r \in Slots, ok \in BOOLEAN : Render(r, ok)
    \/ \E r \in Slots : Observe(r)
    \/ \E r \in Slots : Inc(r)

SpecCollector == Init /\ [][NextCollector]_vars

\* ------------------------------------------------------------------- claims
RECURSIVE SumOver(_, _)
SumOver(f, S) ==
    IF S = {} THEN 0
    ELSE LET t == CHOOSE u \in S : TRUE IN f[t] + SumOver(f, S \ {t})

\* Number of update_metrics calls made so far, over all label tuples.
CallsMade == SumOver(started, DOMAIN started)

\* The request of slot r has left the async block.
Exited(rq) == rq.pc \in {"observe", "inc", "done"}

HandlerLabels == Routes \cup {Wildcard}

\* C1: every request that leaves the interceptor with a response, with an
\* error or through the scrape shortcut has had update_metrics called exactly
\* once; no request has it called twice; over all requests the number of
\* calls equals the number of requests that left.
C1_RecordedExactlyOnce ==
    /\ \A r \in Slots :
         /\ req[r].recorded <= 1
         /\ (Exited(req[r])
             /\ req[r].exit \in {"response", "error", "scrape_ok", "scrape_panic"})
            => req[r].recorded = 1
    /\ CallsMade = arrivals - Cardinality({r \in Slots :
                                            req[r].pc \in {"collect", "awaiting"}})

C1_Witness ==
    /\ req[1].pc = "done" /\ req[1].exit = "error" /\ req[1].recorded = 1
    /\ req[2].pc = "done" /\ req[2].exit = "scrape_ok" /\ req[2].recorded = 1

\* C2: for every label tuple, http_requests_total equals the number of
\* update_metrics calls made with that tuple, less the calls that have not
\* reached their inc() yet; with no call in progress it is exactly N.
C2_CountEqualsCalls ==
    \A t \in DOMAIN started \cup DOMAIN total :
        Get(total, t) = Get(started, t) - InProgress(t)

C2_Witness ==
    /\ Quiescent
    /\ Get(total, <<"GET", "/users", "200">>) = 3
    /\ Get(started, <<"GET", "/users", "200">>) = 3
    /\ Get(total, <<"GET", "/users", "404">>) = 1

\* C3: once all calls have completed, a label tuple for which update_metrics
\* calls ran concurrently has lost no increment: http_requests_total equals
\* the number of calls.
C3_NoLostIncrement ==
    Quiescent => \A t \in raced : /\ t \in DOMAIN total
                                  /\ total[t] = started[t]
                                  /\ total[t] >= 2

C3_Witness ==
    /\ Quiescent
    /\ <<"GET", "/users", "200">> \in raced
    /\ Get(total, <<"GET", "/users", "200">>) = MaxCalls

\* C4: for the collector a build() returned, is_endpoint(path, method) is
\* true exactly when path is the value given to endpoint() (or "/metrics"
\* when none was given) and method is GET.
C4_IsEndpoint ==
    built.result = "ok" =>
        \A p \in ProbePaths, m \in Methods :
            is_endpoint(built.returned, p, m)
            <=> (/\ p = (IF built.from.endpoint = None THEN "/metrics"
                         ELSE built.from.endpoint)
                 /\ m = "GET")

C4_Witness ==
    /\ built.result = "ok"
    /\ built.from.endpoint = None
    /\ is_endpoint(built.returned, "/metrics", "GET")
    /\ ~is_endpoint(built.returned, "/metrics", "POST")
    /\ ~is_endpoint(built.returned, "/stats", "GET")

\* C5: a request for which is_endpoint(path, method) is true never has
\* next.call invoked, whether collect() succeeds or fails.
C5_ScrapeNeverCallsNext ==
    \A r \in Slots :
        (req[r].pc # "idle" /\ is_endpoint(collector, req[r].path, req[r].method))
        => req[r].calls = 0

C5_Witness ==
    /\ req[1].pc = "done" /\ req[1].exit = "scrape_ok" /\ req[1].calls = 0
    /\ req[2].pc = "done" /\ req[2].exit = "scrape_panic" /\ req[2].calls = 0

\* C6: when next.call returns an error, one observation is recorded, its code
\* label is the status of the error's response, and the interceptor returns
\* that error.
C6_DownstreamError ==
    \A r \in Slots :
        (Exited(req[r]) /\ req[r].down.kind = "err")
        => /\ req[r].recorded = 1
           /\ req[r].labels[3] = CodeStr(req[r].down.status)
           /\ req[r].ret = req[r].down
           /\ req[r].pc = "done" => Get(total, req[r].labels) >= 1

C6_Witness ==
    \E r \in Slots :
        /\ req[r].pc = "done" /\ req[r].down = [kind |-> "err", status |-> 500]
        /\ req[r].labels[3] = "500"
        /\ req[r].ret = [kind |-> "err", status |-> 500]

\* C7: the handler label of every request, and of every series, is a
\* registered route pattern or "*"; a request whose path matches no route is
\* recorded under "*".
C7_HandlerLabelBounded ==
    /\ \A r \in Slots :
         req[r].pc # "idle" =>
            /\ req[r].handler \in HandlerLabels
            /\ (~\E p \in Routes : Matches(p, req[r].path)) => req[r].handler = Wildcard
            /\ Exited(req[r]) => req[r].labels[2] = req[r].handler
    /\ \A t \in DOMAIN total \cup DOMAIN hist : t[2] \in HandlerLabels
    /\ Cardinality({t[2] : t \in DOMAIN total \cup DOMAIN hist})
           <= Cardinality(Routes) + 1

C7_Witness ==
    \E r \in Slots :
        /\ req[r].pc = "done" /\ req[r].path = "/stats" /\ req[r].exit = "response"
        /\ req[r].labels[2] = "*"
        /\ Get(total, req[r].labels) >= 1

\* C8: a collect() taken while no update_metrics call is in progress reports,
\* for http_requests_total, exactly the label tuples recorded so far, each
\* with the number of its recordings.
C8_CollectRoundTrip ==
    [][\A r \in Slots :
         (Render(r, TRUE) /\ Quiescent)
         => {l \in req'[r].body : l[1] = TotalName}
            = {<<TotalName, t[1], t[2], t[3], started[t]>> : t \in DOMAIN started}]_vars

C8_Witness ==
    \E r \in Slots :
        /\ req[r].exit = "render" /\ req[r].quiet
        /\ <<TotalName, "GET", "/users", "200", 3>> \in req[r].body

\* C9: build() panics and returns no collector when its registry already
\* holds http_requests_total or http_requests_duration_seconds; with a
\* registry holding neither it succeeds and the registry holds both.
C9_BuildCollision ==
    built.result # "none" =>
        IF built.before \cap {TotalName, DurationName} # {}
        THEN built.result = "panic" /\ built.returned = NoCollector
        ELSE /\ built.result = "ok"
             /\ built.returned.built
             /\ {TotalName, DurationName} \subseteq built.after

C9_Witness ==
    /\ builds = 2
    /\ collector.built /\ collector.registry = "shared"
    /\ built.from.registry = "shared"
    /\ built.result = "panic"

\* C10: a request cancelled while next.call is pending has one observation
\* recorded, with code 200.
C10_CancelRecordsDefault ==
    \A r \in Slots :
        (Exited(req[r]) /\ req[r].exit = "cancelled")
        => /\ req[r].recorded = 1
           /\ req[r].calls = 1
           /\ req[r].labels[3] = "200"
           /\ req[r].pc = "done" => Get(total, req[r].labels) >= 1

C10_Witness ==
    \E r \in Slots :
        /\ req[r].pc = "done" /\ req[r].exit = "cancelled"
        /\ req[r].labels[3] = "200"
        /\ Get(total, req[r].labels) >= 1

\* C11: a scrape whose render succeeds is answered 200 with the rendered
\* text, never reaches next.call, and is itself recorded once, under its own
\* method GET, its resolved handler label and code 200.
C11_ScrapeIsMeasured ==
    \A r \in Slots :
        (Exited(req[r]) /\ req[r].down.kind = "collect_ok")
        => /\ req[r].ret = [kind |-> "ok", status |-> 200]
           /\ req[r].exit = "scrape_ok"
           /\ req[r].calls = 0
           /\ req[r].recorded = 1
           /\ req[r].labels = <<"GET", req[r].handler, "200">>
           /\ \A l \in req[r].body :
                 /\ l[1] \in {TotalName, DurationName}
                 /\ l[5] <= Get(IF l[1] = TotalName THEN total ELSE hist,
                                <<l[2], l[3], l[4]>>)
           /\ req[r].pc = "done" => Get(total, req[r].labels) >= 1

C11_Witness ==
    \E r \in Slots :
        /\ req[r].pc = "done" /\ req[r].down.kind = "collect_ok"
        /\ req[r].ret.status = 200
        /\ req[r].body # {}
        /\ req[r].labels = <<"GET", "/metrics", "200">>
        /\ Get(total, req[r].labels) >= 1

\* C12: a scrape whose render fails is never answered with a success
\* response: the unwrap panics, no response and no text is returned.
C12_RenderFailureNotSuccess ==
    \A r \in Slots :
        (Exited(req[r]) /\ req[r].down.kind = "collect_err")
        => /\ req[r].ret.kind # "ok"
           /\ req[r].ret.status # 200
           /\ req[r].exit = "scrape_panic"
           /\ req[r].body = {}

C12_Witness ==
    \E r \in Slots :
        /\ req[r].pc = "done" /\ req[r].down.kind = "collect_err"
        /\ req[r].ret.kind = "panic"

\* The label the router gives a path: the pattern of the route that matches
\* it, "*" when none does.
RouteLabel(path) ==
    IF FindMatchingNode(path) # None THEN FindMatchingNode(path) ELSE Wildcard

\* A request to the endpoint path with a method other than GET.
OtherMethodOnEndpoint(rq) ==
    rq.pc # "idle" /\ rq.path = collector.endpoint /\ rq.method \notin {None, GET}

\* C13 as stated: a non-GET request to the endpoint path goes downstream
\* once, the caller gets downstream's outcome, one observation is recorded
\* with downstream's status, and its handler label is the endpoint path or
\* the pattern of a route that matches.
C13_Original ==
    \A r \in Slots :
        (OtherMethodOnEndpoint(req[r]) /\ Exited(req[r]))
        => /\ req[r].calls = 1
           /\ req[r].recorded = 1
           /\ req[r].down.kind \in {"ok", "err"}
              => /\ req[r].ret = req[r].down
                 /\ req[r].labels[3] = CodeStr(req[r].down.status)
           /\ req[r].labels[2] \in {collector.endpoint}
                                   \cup {p \in Routes : Matches(p, req[r].path)}

\* C13 as amended: ... and its handler label is the pattern of the route
\* that matches the endpoint path, "*" when the endpoint path is no route.
C13_OtherMethodIsOrdinary ==
    \A r \in Slots :
        OtherMethodOnEndpoint(req[r])
        => /\ req[r].calls = 1
           /\ Exited(req[r])
              => /\ req[r].recorded = 1
                 /\ req[r].exit \in {"response", "error", "cancelled"}
                 /\ req[r].down.kind \in {"ok", "err"}
                    => /\ req[r].ret = req[r].down
                       /\ req[r].labels[3] = CodeStr(req[r].down.status)
                 /\ req[r].labels[2] = RouteLabel(req[r].path)

C13_Witness ==
    \E r \in Slots :
        /\ req[r].pc = "done" /\ req[r].method = "POST" /\ req[r].path = "/stats"
        /\ collector.endpoint = "/stats"
        /\ req[r].calls = 1
        /\ req[r].down = [kind |-> "ok", status |-> 404]
        /\ req[r].labels = <<"POST", "*", "404">>

\* C14: when next.call returns a response, the recorded code label is the
\* response's status, log.code has been assigned once, and the response is
\* returned unchanged.
C14_ResponsePassedThrough ==
    \A r \in Slots :
        (Exited(req[r]) /\ req[r].down.kind = "ok")
        => /\ req[r].labels[3] = CodeStr(req[r].down.status)
           /\ req[r].sets = 1
           /\ req[r].ret = req[r].down
           /\ req[r].recorded = 1

C14_Witness ==
    \E r \in Slots :
        /\ req[r].pc = "done" /\ req[r].down = [kind |-> "ok", status |-> 404]
        /\ req[r].labels[3] = "404" /\ req[r].sets = 1
        /\ req[r].ret = [kind |-> "ok", status |-> 404]

\* The series a rendered line belongs to, and the label tuple it carries.
SeriesOf(l) == IF l[1] = TotalName THEN total ELSE hist
TupleOf(l) == <<l[2], l[3], l[4]>>

C16_NeverRemovedNeverDecreased ==
    [][/\ \A t \in DOMAIN total : t \in DOMAIN total' /\ total'[t] >= total[t]
       /\ \A t \in DOMAIN hist : t \in DOMAIN hist' /\ hist'[t] >= hist[t]
       /\ (\E r \in Slots, ok \in BOOLEAN : Render(r, ok))
          => total' = total /\ hist' = hist]_vars

C16_Witness ==
    /\ Get(total, <<"GET", "/users", "200">>) >= 2
    /\ Get(total, <<"GET", "/users", "404">>) >= 1
    /\ \E r \in Slots : req[r].exit = "render" /\ req[r].body # {}

\* C17 as stated: when match_pattern returns nothing, the raw request path
\* is the recorded handler label.
C17_Original ==
    \A r \in Slots :
        (req[r].pc # "idle" /\ match_pattern(req[r].path) = None)
        => /\ req[r].handler = req[r].path
           /\ Exited(req[r]) => req[r].labels[2] = req[r].path

\* C17 as amended: when match_pattern returns nothing the request is handled
\* as usual, and the raw path is the label only if has_resource accepts it:
\* for a path no route matches the recorded handler label is "*".
C17_NoRouteInfoIsWildcard ==
    \A r \in Slots :
        (req[r].pc # "idle" /\ match_pattern(req[r].path) = None)
        => /\ req[r].handler
                = (IF has_resource(req[r].path) THEN req[r].path ELSE Wildcard)
           /\ req[r].handler = Wildcard
           /\ req[r].pc \in {"collect", "awaiting", "observe", "inc", "done"}
           /\ req[r].calls
                = (IF is_endpoint(collector, req[r].path, req[r].method) THEN 0 ELSE 1)
           /\ Exited(req[r]) => req[r].labels[2] = Wildcard

C17_Witness ==
    \E r \in Slots :
        /\ req[r].pc = "done" /\ req[r].path = "/stats"
        /\ match_pattern(req[r].path) = None
        /\ req[r].exit = "error"
        /\ req[r].labels = <<req[r].method, "*", "500">>

\* The http_requests_total lines of a scrape's body for the scrape's own
\* label tuple, and the value they report (0 without a line).
OwnLines(rq) == {l \in rq.body : l[1] = TotalName /\ TupleOf(l) = rq.labels}
OwnValue(rq) == IF OwnLines(rq) = {} THEN 0 ELSE (CHOOSE l \in OwnLines(rq) : TRUE)[5]

\* No other request is in flight.
OthersIdle(r) == \A s \in Slots \ {r} : req[s].pc \in {"idle", "done"}

\* C18 as stated: with no other request in flight the k-th successful scrape
\* reports k-1 for its own label tuple, and no line for it on the first.
C18_Original ==
    [][\A r \in Slots :
         (Collect(r, TRUE) /\ OthersIdle(r))
         => /\ OwnValue(req'[r]) = scrapes' - 1
            /\ scrapes' = 1 => OwnLines(req'[r]) = {}]_vars

\* C18 as amended: the body of a scrape never counts that scrape; with no
\* other request in flight it reports, for its own label tuple, the number
\* of earlier recordings of that tuple, and no line when there is none.
C18_RenderBeforeRecord ==
    [][\A r \in Slots :
         Collect(r, TRUE)
         => LET t == req'[r].labels
            IN  /\ OwnValue(req'[r]) <= Get(started, t)
                /\ started'[t] = Get(started, t) + 1
                /\ OthersIdle(r)
                   => /\ OwnValue(req'[r]) = Get(started, t)
                      /\ OwnLines(req'[r]) = {} <=> Get(started, t) = 0]_vars

C18_Witness ==
    \E r \in Slots :
        /\ req[r].exit = "scrape_ok"
        /\ scrapes = 2
        /\ OwnValue(req[r]) = 1
        /\ Get(started, req[r].labels) = 2

\* C19: for every label tuple the histogram's count is at least
\* http_requests_total and exceeds it by at most the number of update_metrics
\* calls in progress for the tuple; with none in progress they are equal.
C19_HistogramLeadsCounter ==
    \A t \in DOMAIN hist \cup DOMAIN total \cup DOMAIN started :
        /\ Get(hist, t) >= Get(total, t)
        /\ Get(hist, t) - Get(total, t) <= InProgress(t)
        /\ InProgress(t) = 0 => Get(hist, t) = Get(total, t)

C19_Witness ==
    /\ \A s \in Slots : req[s].pc = "inc" /\ req[s].labels = <<"GET", "/users", "200">>
    /\ Get(hist, <<"GET", "/users", "200">>)
         = Get(total, <<"GET", "/users", "200">>) + NumSlots

\* C20: a scrape whose render fails still has one observation recorded, with
\* the default code 200: log.code is never assigned on the scrape path.
C20_RenderFailureRecordsOk ==
    \A r \in Slots :
        (Exited(req[r]) /\ req[r].down.kind = "collect_err")
        => /\ req[r].recorded = 1
           /\ req[r].sets = 0
           /\ req[r].labels = <<"GET", req[r].handler, "200">>
           /\ req[r].pc = "done" => Get(total, req[r].labels) >= 1

C20_Witness ==
    \E r \in Slots :
        /\ req[r].pc = "done" /\ req[r].exit = "scrape_panic"
        /\ req[r].labels[3] = "200"
        /\ Get(total, req[r].labels) >= 1

====
